---- MODULE Spec2Model ----
(***************************************************************************)
(* Authentication and session integrity of the backend:                    *)
(* src/backend/src/middleware/auth.js (token issuance, the authorization   *)
(* gate, the revocation registry and its deferred sweep) and the logout    *)
(* route of src/backend/src/routes/questions.js.                           *)
(*                                                                         *)
(* Strings are sequences of chunks.  A chunk is a space, a word, or a      *)
(* whole signed token; a token string is the one-chunk string <<jwt>>.     *)
(* Time is Date.now() in milliseconds, counted from process start.         *)
(***************************************************************************)
EXTENDS Integers, Sequences, FiniteSets, TLC

VARIABLES
    now,                \* Date.now(), in milliseconds
    ticks,              \* number of clock advances taken so far (bounded)
    JWT_SECRET,         \* auth.js:5
    JWT_EXPIRES_IN,     \* auth.js:6, in seconds
    JWT_REFRESH_SECRET, \* auth.js:7
    tokenBlacklist,     \* auth.js:10
    timers,             \* number of setTimeout callbacks of revokeToken not yet run
    issued,             \* the calls of generateTokens so far: arguments, boot and result
    revokedEver,        \* every string revokeToken was called with in this process
    last,               \* the operation that ran last, with its request and response
    boots,              \* number of restarts of the process so far
    users,              \* the rows of the table users
    regs,               \* the POST /api/auth/register requests in progress or answered
    logins,             \* the POST /api/auth/login requests in progress or answered
    products,           \* the rows of the table products
    questions,          \* the rows of the table questions
    answers,            \* the rows of the table answers
    env,                \* process.env, the variables the routes read
    tc                  \* the run of testConnection, database.js:21-41

\* the tables of the catalogue, the environment and the connection test
catalogue == <<products, questions, answers, env, tc>>

\* the state of the routes other than the authentication middleware
routes == <<users, regs, logins, catalogue>>

\* the state of the authentication middleware, but for the log of issued tokens
gateState == <<now, ticks, JWT_SECRET, JWT_EXPIRES_IN, JWT_REFRESH_SECRET,
               tokenBlacklist, timers, revokedEver, last, boots>>

vars == <<now, ticks, JWT_SECRET, JWT_EXPIRES_IN, JWT_REFRESH_SECRET,
          tokenBlacklist, timers, issued, revokedEver, last, boots, routes>>

----------------------------------------------------------------------------
(* Bounds of the model *)

MaxTicks == 2
MaxIssued == 1
MaxTimers == 2
MaxRestarts == 1
MaxRegs == 2
MaxLogins == 2
MaxProducts == 2
MaxRetries == 4
FillerBatch == 98

(* Program constants *)

SweepEvery == 100

\* 24 * 60 * 60 * 1000, auth.js:35
maxAge == 24 * 60 * 60 * 1000

\* 60 * 60 * 1000, auth.js:65
OneHourMs == 60 * 60 * 1000

\* expiresIn: '7d', auth.js:54, in seconds
RefreshLifetime == 7 * 24 * 60 * 60

\* the values of JWT_EXPIRES_IN the model configures, in seconds: 1h, 24h
\* (the default) and 48h
Lifetimes == {60 * 60, 24 * 60 * 60, 48 * 60 * 60}

\* the steps the clock takes: 1 ms, one hour, 24 hours
Deltas == {1, OneHourMs, maxAge}

Identities == {[id |-> 1, email |-> "a@x.com"], [id |-> 2, email |-> "b@x.com"]}

----------------------------------------------------------------------------
(* Strings *)

SP == [kind |-> "sp"]
Word(w) == [kind |-> "word", w |-> w]
Bearer == Word("Bearer")
Basic == Word("Basic")

\* the value `undefined`; no header and no token contains this chunk
Undefined == <<[kind |-> "undefined"]>>
EmptyString == <<>>

\* String.prototype.split(' ')
RECURSIVE Split(_)
Split(s) ==
    IF s = <<>> THEN << <<>> >>
    ELSE LET rest == Split(Tail(s)) IN
         IF Head(s) = SP
         THEN << <<>> >> \o rest
         ELSE << <<Head(s)>> \o rest[1] >> \o Tail(rest)

\* JavaScript truthiness of a string or undefined
Truthy(s) == s # Undefined /\ s # EmptyString

\* authHeader && authHeader.split(' ')[1]   (index 1 is the second part)
ExtractToken(authHeader) ==
    IF ~Truthy(authHeader) THEN authHeader
    ELSE LET parts == Split(authHeader) IN
         IF Len(parts) >= 2 THEN parts[2] ELSE Undefined

----------------------------------------------------------------------------
(* jsonwebtoken *)

\* Math.floor(ms / 1000)
FloorSec(ms) == ms \div 1000

\* jwt.sign(payload, secret, {expiresIn}): exp is counted from payload.iat
jwt_sign(payload, secret, expiresIn) ==
    << [kind |-> "jwt", id |-> payload.id, email |-> payload.email,
        iat |-> payload.iat, exp |-> payload.iat + expiresIn, key |-> secret] >>

IsJwt(token) == Len(token) = 1 /\ token[1].kind = "jwt"

\* a string with a well-formed JWT header whose payload part is not JSON
IsBadJson(token) == Len(token) = 1 /\ token[1].kind = "badjson"

\* a well-formed token whose payload carries no iat
IsNoIat(token) == Len(token) = 1 /\ token[1].kind = "noiat"

PayloadOf(token) ==
    [id |-> token[1].id, email |-> token[1].email,
     iat |-> token[1].iat, exp |-> token[1].exp]

\* jwt.decode(token): the payload without any verification; null for a
\* string that is no token; an exception (of JSON.parse) for a payload that
\* is not JSON.  iat is <<>> when the payload has none.
jwt_decode(token) ==
    IF IsJwt(token)
    THEN [threw |-> FALSE, ok |-> TRUE, iat |-> <<token[1].iat>>,
          payload |-> PayloadOf(token)]
    ELSE IF IsNoIat(token) THEN [threw |-> FALSE, ok |-> TRUE, iat |-> <<>>]
    ELSE IF IsBadJson(token) THEN [threw |-> TRUE, ok |-> FALSE]
    ELSE [threw |-> FALSE, ok |-> FALSE]

\* jwt_verify with a token still accepted in the second of its exp
jwt_verify_ExpiryLate(token, secret, clock) ==
    IF ~IsJwt(token) THEN [err |-> "JsonWebTokenError"]
    ELSE IF token[1].key # secret THEN [err |-> "JsonWebTokenError"]
    ELSE IF FloorSec(clock) > token[1].exp THEN [err |-> "TokenExpiredError"]
    ELSE [err |-> "none", user |-> PayloadOf(token)]

\* jwt_verify with the expiry looked at before the signature
jwt_verify_ExpiryFirst(token, secret, clock) ==
    IF ~IsJwt(token) THEN [err |-> "JsonWebTokenError"]
    ELSE IF FloorSec(clock) >= token[1].exp THEN [err |-> "TokenExpiredError"]
    ELSE IF token[1].key # secret THEN [err |-> "JsonWebTokenError"]
    ELSE [err |-> "none", user |-> PayloadOf(token)]

\* jwt.verify(token, secret, callback): format, then signature, then expiry
jwt_verify(token, secret, clock) ==
    IF ~IsJwt(token) THEN [err |-> "JsonWebTokenError"]
    ELSE IF token[1].key # secret THEN [err |-> "JsonWebTokenError"]
    ELSE IF FloorSec(clock) >= token[1].exp THEN [err |-> "TokenExpiredError"]
    ELSE [err |-> "none", user |-> PayloadOf(token)]

----------------------------------------------------------------------------
(* The token strings the clients and attackers of the model hold *)

AccessTokens == {p.pair.accessToken : p \in issued}
RefreshTokens == {p.pair.refreshToken : p \in issued}

\* a token with the payload of t and a signature made with no server key
Forged(t) == << [t[1] EXCEPT !.key = [src |-> "attacker", use |-> "access", boot |-> 0]] >>

\* a string that is no token at all
Garbage == << Word("garbage") >>

\* the i-th of the other strings that get revoked: the first has a payload
\* that is not JSON, the second is a token without iat, the others are no
\* tokens at all
Filler(i) ==
    << [kind |-> IF i = 1 THEN "badjson" ELSE IF i = 2 THEN "noiat" ELSE "filler",
        n |-> i] >>

Presentable ==
    AccessTokens \cup RefreshTokens \cup {Forged(t) : t \in AccessTokens}
    \cup {Garbage}

\* the Authorization headers of the model: absent and empty ones, the Bearer
\* form of every token string, and the other shapes of an access token
Headers ==
    {Undefined, EmptyString, <<Bearer>>, <<Bearer, SP>>}
    \cup {<<Bearer, SP>> \o t : t \in Presentable}
    \cup UNION {{ <<Basic, SP>> \o t,
                  t,
                  <<SP>> \o t,
                  <<Bearer>> \o t,
                  <<Bearer, SP, SP>> \o t,
                  <<Bearer, SP>> \o t \o <<SP, Word("x")>> } : t \in AccessTokens}

\* the headers sent to POST /api/auth/logout
LogoutHeaders ==
    {Undefined}
    \cup {<<Bearer, SP>> \o t : t \in Presentable}
    \cup {<<Basic, SP>> \o t : t \in AccessTokens}

----------------------------------------------------------------------------
(* auth.js *)

\* a response object nothing was sent on, next not called, req.user not set
NoResponse == [sent |-> <<>>, nextCalls |-> 0, user |-> <<>>]

\* return res.status(status).json({ error })
Reject(res, status, error) ==
    [res EXCEPT !.sent = Append(@, [status |-> status, error |-> error])]

\* req.user = user; next()
Admit(res, user) ==
    [res EXCEPT !.user = <<user>>, !.nextCalls = @ + 1]

\* tokenBlacklist.has(token)
IsRevoked(token) == token \in tokenBlacklist

\* VerifyCallback with req.user assigned before the check of the token's age
VerifyCallback_AttachEarly(res, v) ==
    IF v.err # "none"
    THEN IF v.err = "TokenExpiredError"
         THEN Reject(res, 401, "Token expired")
         ELSE Reject(res, 403, "Invalid token")
    ELSE LET tokenAge == now - (v.user.iat * 1000) IN
         IF tokenAge > maxAge
         THEN Reject([res EXCEPT !.user = <<v.user>>], 401,
                     "Token too old, please refresh")
         ELSE Admit(res, v.user)

\* VerifyCallback without the check of the token's age
VerifyCallback_NoAgeCheck(res, v) ==
    IF v.err # "none"
    THEN IF v.err = "TokenExpiredError"
         THEN Reject(res, 401, "Token expired")
         ELSE Reject(res, 403, "Invalid token")
    ELSE Admit(res, v.user)

\* VerifyCallback with the return of the 'Token expired' branch missing
VerifyCallback_FallThrough(res, v) ==
    IF v.err # "none"
    THEN IF v.err = "TokenExpiredError"
         THEN Reject(Reject(res, 401, "Token expired"), 403, "Invalid token")
         ELSE Reject(res, 403, "Invalid token")
    ELSE LET tokenAge == now - (v.user.iat * 1000) IN
         IF tokenAge > maxAge
         THEN Reject(res, 401, "Token too old, please refresh")
         ELSE Admit(res, v.user)

\* the callback of jwt.verify, auth.js:25-43
VerifyCallback(res, v) ==
    IF v.err # "none"
    THEN IF v.err = "TokenExpiredError"
         THEN Reject(res, 401, "Token expired")
         ELSE Reject(res, 403, "Invalid token")
    ELSE LET tokenAge == now - (v.user.iat * 1000) IN
         IF tokenAge > maxAge
         THEN Reject(res, 401, "Token too old, please refresh")
         ELSE Admit(res, v.user)

\* authenticateToken without the look into the registry
authenticateToken_NoBlacklist(authHeader) ==
    LET token == ExtractToken(authHeader) IN
    IF ~Truthy(token)
    THEN Reject(NoResponse, 401, "Access token required")
    ELSE VerifyCallback(NoResponse, jwt_verify(token, JWT_SECRET, now))

\* authenticateToken with the registry consulted after a successful jwt.verify
authenticateToken_VerifyFirst(authHeader) ==
    LET token == ExtractToken(authHeader)
        v == jwt_verify(token, JWT_SECRET, now)
    IN
    IF ~Truthy(token)
    THEN Reject(NoResponse, 401, "Access token required")
    ELSE IF v.err = "none" /\ IsRevoked(token)
    THEN Reject(NoResponse, 401, "Token has been revoked")
    ELSE VerifyCallback(NoResponse, v)

\* authenticateToken(req, res, next), auth.js:12-44
authenticateToken(authHeader) ==
    LET token == ExtractToken(authHeader) IN
    IF ~Truthy(token)
    THEN Reject(NoResponse, 401, "Access token required")
    ELSE IF IsRevoked(token)
    THEN Reject(NoResponse, 401, "Token has been revoked")
    ELSE VerifyCallback(NoResponse, jwt_verify(token, JWT_SECRET, now))

\* generateTokens with iat in milliseconds
generateTokens_MsClock(userId, email) ==
    LET payload == [id |-> userId, email |-> email, iat |-> now] IN
    [accessToken |-> jwt_sign(payload, JWT_SECRET, JWT_EXPIRES_IN),
     refreshToken |-> jwt_sign(payload, JWT_REFRESH_SECRET, RefreshLifetime)]

\* generateTokens with the two secrets exchanged
generateTokens_SwapSecrets(userId, email) ==
    LET payload == [id |-> userId, email |-> email, iat |-> FloorSec(now)] IN
    [accessToken |-> jwt_sign(payload, JWT_REFRESH_SECRET, JWT_EXPIRES_IN),
     refreshToken |-> jwt_sign(payload, JWT_SECRET, RefreshLifetime)]

\* generateTokens(userId, email), auth.js:46-57
generateTokens(userId, email) ==
    LET payload == [id |-> userId, email |-> email, iat |-> FloorSec(now)] IN
    [accessToken |-> jwt_sign(payload, JWT_SECRET, JWT_EXPIRES_IN),
     refreshToken |-> jwt_sign(payload, JWT_REFRESH_SECRET, RefreshLifetime)]

\* tokenBlacklist.size % 100 === 0, auth.js:63
SweepDue(blacklist) == Cardinality(blacklist) % SweepEvery = 0

\* SweepDeletes with > for <
SweepDeletes_Inverted(oldToken, oneHourAgo) ==
    LET decoded == jwt_decode(oldToken) IN
    \/ decoded.threw
    \/ decoded.ok /\ decoded.iat # <<>> /\ decoded.iat[1] * 1000 > oneHourAgo

\* SweepDeletes with <= for <
SweepDeletes_AtBoundary(oldToken, oneHourAgo) ==
    LET decoded == jwt_decode(oldToken) IN
    \/ decoded.threw
    \/ decoded.ok /\ decoded.iat # <<>> /\ decoded.iat[1] * 1000 <= oneHourAgo

\* the body of the sweep's loop, auth.js:67-74: the member is deleted when
\* decoded && decoded.iat * 1000 < oneHourAgo (false for null and, the
\* product being NaN, for a payload without iat) or when jwt.decode threw
SweepDeletes(oldToken, oneHourAgo) ==
    LET decoded == jwt_decode(oldToken) IN
    \/ decoded.threw
    \/ decoded.ok /\ decoded.iat # <<>> /\ decoded.iat[1] * 1000 < oneHourAgo

\* SweepCallback emptying the registry
SweepCallback_Clear(blacklist) == {}

\* the setTimeout callback, auth.js:64-76: what it leaves in the registry
SweepCallback(blacklist) ==
    LET oneHourAgo == now - OneHourMs IN
    {t \in blacklist : ~SweepDeletes(t, oneHourAgo)}

\* revokeToken inserting, with the token, the other token of its pair
revokeToken_WholePair(reg, token) ==
    LET pairOf == UNION {{q.pair.accessToken, q.pair.refreshToken} :
                            q \in {c \in issued : token \in {c.pair.accessToken,
                                                              c.pair.refreshToken}}}
        added == reg.blacklist \cup {token} \cup pairOf
    IN
    [blacklist |-> added,
     timers |-> IF SweepDue(added) THEN reg.timers + 1 ELSE reg.timers]

\* revokeToken with the sweep run inside the call instead of in a timer
revokeToken_SweepInline(reg, token) ==
    LET added == reg.blacklist \cup {token} IN
    [blacklist |-> IF SweepDue(added) THEN SweepCallback(added) ELSE added,
     timers |-> reg.timers]

\* revokeToken(token), auth.js:59-78, on the registry reg = [blacklist, timers]:
\* the insertion, and the setTimeout that schedules the sweep
revokeToken(reg, token) ==
    LET added == reg.blacklist \cup {token} IN
    [blacklist |-> added,
     timers |-> IF SweepDue(added) THEN reg.timers + 1 ELSE reg.timers]

Registry == [blacklist |-> tokenBlacklist, timers |-> timers]

----------------------------------------------------------------------------
(* The operations *)

Config == <<JWT_SECRET, JWT_EXPIRES_IN, JWT_REFRESH_SECRET>>

\* process.env: AI_SERVICE_URL is not set, set to the empty string, or set
Environments ==
    {[AI_SERVICE_URL |-> Undefined], [AI_SERVICE_URL |-> EmptyString],
     [AI_SERVICE_URL |-> <<Word("http://ai:5001")>>]}

\* an empty database, no request yet, AI_SERVICE_URL set, testConnection not
\* started
TablesInit ==
    /\ users = {}
    /\ regs = <<>>
    /\ logins = <<>>
    /\ products = {}
    /\ questions = {}
    /\ answers = {}
    /\ tc = [pc |-> "idle"]

RoutesInit ==
    /\ TablesInit
    /\ env = [AI_SERVICE_URL |-> <<Word("http://ai:5001")>>]

\* process.env.JWT_SECRET / process.env.JWT_REFRESH_SECRET, when set
EnvSecret(use) == [src |-> "env", use |-> use, boot |-> 0]

\* RandomBytes giving the same value at every boot
RandomBytes_Fixed(use, boot) == [src |-> "random", use |-> use, boot |-> 0]

\* crypto.randomBytes(64).toString('hex'), drawn when the process boots: a
\* value no other boot and no other draw produces
RandomBytes(use, boot) == [src |-> "random", use |-> use, boot |-> boot]

Init ==
    /\ now = 0
    /\ ticks = 0
    /\ JWT_SECRET = RandomBytes("access", 0)
    /\ JWT_REFRESH_SECRET = RandomBytes("refresh", 0)
    /\ JWT_EXPIRES_IN \in Lifetimes
    /\ tokenBlacklist = {}
    /\ timers = 0
    /\ issued = {}
    /\ revokedEver = {}
    /\ last = [op |-> "idle"]
    /\ boots = 0
    /\ RoutesInit

\* the handler that ran last has returned and its request is gone
Idle == last.op = "idle"

\* time passes
Tick(d) ==
    /\ Idle
    /\ ticks < MaxTicks
    /\ now' = now + d
    /\ ticks' = ticks + 1
    /\ last' = [op |-> "tick"]
    /\ UNCHANGED <<Config, tokenBlacklist, timers, issued, revokedEver, boots, routes>>

\* login or registration hands the identity u to generateTokens
Issue(u) ==
    LET call == [userId |-> u.id, email |-> u.email, boot |-> boots,
                 pair |-> generateTokens(u.id, u.email)] IN
    /\ Idle
    /\ call \in issued \/ Cardinality(issued) < MaxIssued
    /\ issued' = issued \cup {call}
    /\ last' = [op |-> "issue", call |-> call]
    /\ UNCHANGED <<now, ticks, Config, tokenBlacklist, timers, revokedEver, boots, routes>>

\* a request to a route behind authenticateToken
Request(h) ==
    /\ Idle
    /\ last' = [op |-> "request", header |-> h, token |-> ExtractToken(h),
                wasRevoked |-> IsRevoked(ExtractToken(h)),
                wasPassed |-> ExtractToken(h) \in revokedEver,
                gate |-> authenticateToken(h)]
    /\ UNCHANGED <<now, ticks, Config, tokenBlacklist, timers, issued, revokedEver, boots, routes>>

\* the logout handler mounted without authenticateToken in front of it
Logout_Unchecked(h) ==
    LET gate == authenticateToken(h)
        token == ExtractToken(h)
        revokes == Truthy(token)
        reg == IF revokes THEN revokeToken(Registry, token) ELSE Registry
        res == Reject(NoResponse, 200, "Logged out successfully")
    IN
    /\ Idle
    /\ reg.timers <= MaxTimers
    /\ tokenBlacklist' = reg.blacklist
    /\ timers' = reg.timers
    /\ revokedEver' = IF revokes THEN revokedEver \cup {token} ELSE revokedEver
    /\ last' = [op |-> "logout", header |-> h, token |-> token,
                wasRevoked |-> IsRevoked(token),
                wasPassed |-> token \in revokedEver,
                gate |-> gate, res |-> res]
    /\ UNCHANGED <<now, ticks, Config, issued, boots, routes>>

\* router.post('/logout', authenticateToken, ...), questions.js:515-521
Logout(h) ==
    LET gate == authenticateToken(h)
        token == ExtractToken(h)
        revokes == gate.nextCalls > 0 /\ Truthy(token)
        reg == IF revokes THEN revokeToken(Registry, token) ELSE Registry
        res == IF gate.nextCalls > 0
               THEN Reject(gate, 200, "Logged out successfully") ELSE gate
    IN
    /\ Idle
    /\ reg.timers <= MaxTimers
    /\ tokenBlacklist' = reg.blacklist
    /\ timers' = reg.timers
    /\ revokedEver' = IF revokes THEN revokedEver \cup {token} ELSE revokedEver
    /\ last' = [op |-> "logout", header |-> h, token |-> token,
                wasRevoked |-> IsRevoked(token),
                wasPassed |-> token \in revokedEver,
                gate |-> gate, res |-> res]
    /\ UNCHANGED <<now, ticks, Config, issued, boots, routes>>

\* revokeToken called directly with one string
Revoke(t) ==
    LET reg == revokeToken(Registry, t) IN
    /\ Idle
    /\ reg.timers <= MaxTimers
    /\ tokenBlacklist' = reg.blacklist
    /\ timers' = reg.timers
    /\ revokedEver' = revokedEver \cup {t}
    /\ last' = [op |-> "revoke", token |-> t, wasRevoked |-> IsRevoked(t)]
    /\ UNCHANGED <<now, ticks, Config, issued, boots, routes>>

\* revokeToken called in a loop on FillerBatch strings that are no tokens:
\* the k-th call finds the registry with the first k-1 of them inserted
RevokeFillers ==
    LET before(k) == [blacklist |-> tokenBlacklist \cup {Filler(i) : i \in 1..(k-1)},
                      timers |-> 0]
        call(k) == revokeToken(before(k), Filler(k))
        scheduled == Cardinality({k \in 1..FillerBatch : call(k).timers > 0})
    IN
    /\ Idle
    /\ Filler(FillerBatch) \notin tokenBlacklist
    /\ timers + scheduled <= MaxTimers
    /\ tokenBlacklist' = call(FillerBatch).blacklist
    /\ timers' = timers + scheduled
    /\ revokedEver' = revokedEver \cup {Filler(i) : i \in 1..FillerBatch}
    /\ last' = [op |-> "fillers"]
    /\ UNCHANGED <<now, ticks, Config, issued, boots, routes>>

\* a scheduled sweep runs
Sweep ==
    /\ Idle
    /\ timers > 0
    /\ timers' = timers - 1
    /\ tokenBlacklist' = SweepCallback(tokenBlacklist)
    /\ last' = [op |-> "sweep"]
    /\ UNCHANGED <<now, ticks, Config, issued, revokedEver, boots, routes>>

\* the handler returns to the event loop; its request and response are dropped
Return ==
    /\ ~Idle
    /\ last' = [op |-> "idle"]
    /\ UNCHANGED <<now, ticks, Config, tokenBlacklist, timers, issued, revokedEver, boots, routes>>

Next ==
    \/ \E d \in Deltas : Tick(d)
    \/ \E u \in Identities : Issue(u)
    \/ \E h \in Headers : Request(h)
    \/ \E h \in LogoutHeaders : Logout(h)
    \/ \E t \in Presentable : Revoke(t)
    \/ RevokeFillers
    \/ Sweep
    \/ Return

Spec == Init /\ [][Next]_vars

----------------------------------------------------------------------------
(* The sweep scenario: SweepEvery stale tokens are revoked in a loop, then a
   token issued just now is revoked *)

TwoHoursMs == 2 * OneHourMs

\* the k-th stale token: a token of this server issued two hours ago
Stale(k) ==
    jwt_sign([id |-> k, email |-> "stale@x.com", iat |-> FloorSec(now - TwoHoursMs)],
             JWT_SECRET, JWT_EXPIRES_IN)

IsStale(t) == IsJwt(t) /\ t[1].email = "stale@x.com"

\* the process has been up for two hours and nothing was revoked yet
InitSweep ==
    /\ now = TwoHoursMs
    /\ ticks = 0
    /\ JWT_SECRET = RandomBytes("access", 0)
    /\ JWT_REFRESH_SECRET = RandomBytes("refresh", 0)
    /\ JWT_EXPIRES_IN \in Lifetimes
    /\ tokenBlacklist = {}
    /\ timers = 0
    /\ issued = {}
    /\ revokedEver = {}
    /\ last = [op |-> "idle"]
    /\ boots = 0
    /\ RoutesInit

\* revokeToken called in a loop on the SweepEvery stale tokens, the registry
\* being empty: the k-th call finds the first k-1 of them inserted
RevokeStale ==
    LET before(k) == [blacklist |-> {Stale(i) : i \in 1..(k-1)}, timers |-> 0]
        call(k) == revokeToken(before(k), Stale(k))
        scheduled == Cardinality({k \in 1..SweepEvery : call(k).timers > 0})
    IN
    /\ Idle
    /\ tokenBlacklist = {}
    /\ revokedEver = {}
    /\ timers + scheduled <= MaxTimers
    /\ tokenBlacklist' = call(SweepEvery).blacklist
    /\ timers' = timers + scheduled
    /\ revokedEver' = {Stale(i) : i \in 1..SweepEvery}
    /\ last' = [op |-> "stale"]
    /\ UNCHANGED <<now, ticks, Config, issued, boots, routes>>

\* a timer of 0 ms is run by the event loop before the clock has advanced by
\* more than a millisecond
TimerTick(d) == (timers > 0 => d = 1) /\ Tick(d)

\* the token is issued after the loop
IssueFresh(u) == revokedEver # {} /\ Issue(u)

\* the token issued just now is revoked, as the call after the loop
RevokeFresh(t) ==
    /\ Cardinality(revokedEver) = SweepEvery
    /\ t[1].iat = FloorSec(now)
    /\ Revoke(t)

NextSweep ==
    \/ \E d \in Deltas : TimerTick(d)
    \/ RevokeStale
    \/ \E u \in Identities : IssueFresh(u)
    \/ \E t \in AccessTokens : RevokeFresh(t)
    \/ Sweep
    \/ Return

SpecSweep == InitSweep /\ [][NextSweep]_vars

\* every handler returns, and the event loop runs a timer that is due however
\* many requests keep arriving: the sweep, which is enabled every time the
\* loop is idle, is eventually run
FairSpecSweep == SpecSweep /\ SF_vars(Sweep) /\ WF_vars(Return)

----------------------------------------------------------------------------
(* The process across restarts, driven through its routes *)

\* process.env.X || crypto.randomBytes(64).toString('hex'), auth.js:5 and 7,
\* evaluated at boot number boot: current is the value of the boot before
BootSecret(current, use, boot) ==
    IF current.src = "env" THEN EnvSecret(use) ELSE RandomBytes(use, boot)

\* either secret is configured in the environment or drawn at boot
InitRestart ==
    /\ now = 0
    /\ ticks = 0
    /\ JWT_SECRET \in {EnvSecret("access"), RandomBytes("access", 0)}
    /\ JWT_REFRESH_SECRET \in {EnvSecret("refresh"), RandomBytes("refresh", 0)}
    /\ JWT_EXPIRES_IN \in Lifetimes
    /\ tokenBlacklist = {}
    /\ timers = 0
    /\ issued = {}
    /\ revokedEver = {}
    /\ last = [op |-> "idle"]
    /\ boots = 0
    /\ RoutesInit

\* the process exits and is started again in the same environment: the
\* module-level state of auth.js is built anew, the pending timers are gone;
\* the clock, the tokens the clients hold and the database stay
Restart ==
    /\ Idle
    /\ boots < MaxRestarts
    /\ boots' = boots + 1
    /\ JWT_SECRET' = BootSecret(JWT_SECRET, "access", boots + 1)
    /\ JWT_REFRESH_SECRET' = BootSecret(JWT_REFRESH_SECRET, "refresh", boots + 1)
    /\ tokenBlacklist' = {}
    /\ timers' = 0
    /\ revokedEver' = {}
    /\ last' = [op |-> "restart"]
    /\ UNCHANGED <<now, ticks, JWT_EXPIRES_IN, issued, routes>>

\* the requests the routes serve (revokeToken is reached through logout
\* only), the clock and the restarts
NextRestart ==
    \/ \E d \in Deltas : Tick(d)
    \/ \E u \in Identities : Issue(u)
    \/ \E h \in Headers : Request(h)
    \/ \E h \in LogoutHeaders : Logout(h)
    \/ Restart
    \/ Return

SpecRestart == InitRestart /\ [][NextRestart]_vars

----------------------------------------------------------------------------
(* POST /api/auth/register, questions.js:257-361, over the table users.  A
   request is at one of its awaits: pc is "select", "hash" or "insert", or
   "done" once it is answered.  The database is taken to answer every query. *)

\* the emails of the requests, after normalizeEmail and sanitizeObject
Emails == {u.email : u \in Identities}

\* SELECT id FROM users WHERE email = $1
SelectByEmail(email) == {row \in users : row.email = email}

\* nextval of the sequence of users.id: every INSERT draws a value, also one
\* that fails
NextUserId == 1 + Cardinality({i \in DOMAIN regs : regs[i].drewId})

\* the passwords of the requests, each a sequence of pieces of text: two
\* plain ones and one that ends in an angle bracket
Passwords == {<<"Passw0rd!1">>, <<"Passw0rd!2">>, <<"Passw0rd!1", ">">>}

RECURSIVE trimStart(_)
trimStart(input) ==
    IF input # <<>> /\ Head(input) = " " THEN trimStart(Tail(input)) ELSE input

RECURSIVE trimEnd(_)
trimEnd(input) ==
    IF input # <<>> /\ input[Len(input)] = " "
    THEN trimEnd(SubSeq(input, 1, Len(input) - 1))
    ELSE input

\* sanitizeInput(input) of a string: trim(), then every "<" and ">" removed
\* (no text of the requests holds a script block or exceeds 10000 characters)
sanitizeInput(input) ==
    SelectSeq(trimEnd(trimStart(input)), LAMBDA c : c \notin {"<", ">"})

\* bcrypt.hash(password, saltRounds): a digest, not the password
bcrypt_hash(password) == [alg |-> "bcrypt", of |-> password]

\* bcrypt.compare(password, hash)
bcrypt_compare(password, hash) == hash = bcrypt_hash(password)

\* a request arrives; one that fails validation is answered 400 at once
RegisterStart(email, password, valid) ==
    /\ Len(regs) < MaxRegs
    /\ regs' = Append(regs,
                  IF valid
                  THEN [email |-> email, submitted |-> password,
                        password |-> sanitizeInput(password), valid |-> TRUE,
                        pc |-> "select", drewId |-> FALSE, res |-> <<>>]
                  ELSE [email |-> email, submitted |-> password,
                        password |-> <<>>, valid |-> FALSE,
                        pc |-> "done", drewId |-> FALSE,
                        res |-> <<[status |-> 400, error |-> "Validation failed"]>>])
    /\ UNCHANGED <<gateState, issued, users, logins, catalogue>>

\* await db.query('SELECT id FROM users WHERE email = $1'), and the answer
\* 409 when a row came back
RegisterSelect(i) ==
    /\ regs[i].pc = "select"
    /\ regs' = [regs EXCEPT ![i] =
                  IF SelectByEmail(regs[i].email) # {}
                  THEN [@ EXCEPT !.pc = "done",
                                 !.res = <<[status |-> 409,
                                            error |-> "User already exists"]>>]
                  ELSE [@ EXCEPT !.pc = "hash"]]
    /\ UNCHANGED <<gateState, issued, users, logins, catalogue>>

\* await bcrypt.hash(password, saltRounds)
RegisterHash(i) ==
    /\ regs[i].pc = "hash"
    /\ regs' = [regs EXCEPT ![i].pc = "insert"]
    /\ UNCHANGED <<gateState, issued, users, logins, catalogue>>

\* await db.query('INSERT INTO users ... RETURNING ...'): the UNIQUE
\* constraint on email makes the INSERT throw when the email has a row, and
\* the catch answers 500; otherwise the row is created, generateTokens is
\* called and the answer is 201 with the user and the tokens
RegisterInsert(i) ==
    LET email == regs[i].email
        user == [id |-> NextUserId, email |-> email,
                 password_hash |-> bcrypt_hash(regs[i].password)]
        tokens == generateTokens(user.id, user.email)
    IN
    /\ regs[i].pc = "insert"
    /\ IF SelectByEmail(email) # {}
       THEN /\ regs' = [regs EXCEPT ![i] =
                          [@ EXCEPT !.pc = "done", !.drewId = TRUE,
                                    !.res = <<[status |-> 500,
                                               error |-> "Internal server error during registration"]>>]]
            /\ UNCHANGED <<users, issued>>
       ELSE /\ users' = users \cup {user}
            /\ issued' = issued \cup {[userId |-> user.id, email |-> user.email,
                                        boot |-> boots, pair |-> tokens]}
            /\ regs' = [regs EXCEPT ![i] =
                          [@ EXCEPT !.pc = "done", !.drewId = TRUE,
                                    !.res = <<[status |-> 201,
                                               user |-> [id |-> user.id,
                                                         email |-> user.email],
                                               tokens |-> tokens]>>]]
    /\ UNCHANGED <<gateState, logins, catalogue>>

NextRegister ==
    \/ \E email \in Emails, password \in Passwords, valid \in BOOLEAN :
          RegisterStart(email, password, valid)
    \/ \E i \in DOMAIN regs : RegisterSelect(i)
    \/ \E i \in DOMAIN regs : RegisterHash(i)
    \/ \E i \in DOMAIN regs : RegisterInsert(i)

SpecRegister == Init /\ [][NextRegister]_vars

----------------------------------------------------------------------------
(* POST /api/auth/login, questions.js:395-495.  A request is at one of its
   awaits: pc is "select" or "compare", or "done" once it is answered. *)

\* a request arrives; one that fails validation is answered 400 at once,
\* another has email and password taken from sanitizeObject(req.body)
LoginStart(email, password, valid) ==
    /\ Len(logins) < MaxLogins
    /\ logins' = Append(logins,
                    IF valid
                    THEN [email |-> email, submitted |-> password,
                        password |-> sanitizeInput(password), valid |-> TRUE,
                          pc |-> "select", user |-> <<>>, res |-> <<>>]
                    ELSE [email |-> email, submitted |-> password,
                        password |-> <<>>, valid |-> FALSE,
                          pc |-> "done", user |-> <<>>,
                          res |-> <<[status |-> 400, error |-> "Validation failed"]>>])
    /\ UNCHANGED <<gateState, issued, users, regs, catalogue>>

\* await db.query('SELECT ... FROM users WHERE email = $1'), and the answer
\* 401 when no row came back; else user = result.rows[0]
LoginSelect(i) ==
    LET rows == SelectByEmail(logins[i].email) IN
    /\ logins[i].pc = "select"
    /\ logins' = [logins EXCEPT ![i] =
                    IF rows = {}
                    THEN [@ EXCEPT !.pc = "done",
                                   !.res = <<[status |-> 401,
                                              error |-> "Invalid credentials"]>>]
                    ELSE [@ EXCEPT !.pc = "compare",
                                   !.user = <<CHOOSE row \in rows : TRUE>>]]
    /\ UNCHANGED <<gateState, issued, users, regs, catalogue>>

\* await bcrypt.compare(password, user.password_hash), password being the
\* sanitizeObject(req.body) one: the answer 401 when
\* it is false; else generateTokens(user.id, user.email) and the answer 200
\* with the user and the tokens
LoginCompare(i) ==
    LET user == logins[i].user[1]
        tokens == generateTokens(user.id, user.email)
    IN
    /\ logins[i].pc = "compare"
    /\ IF ~bcrypt_compare(logins[i].password, user.password_hash)
       THEN /\ logins' = [logins EXCEPT ![i] =
                            [@ EXCEPT !.pc = "done",
                                      !.res = <<[status |-> 401,
                                                 error |-> "Invalid credentials"]>>]]
            /\ UNCHANGED issued
       ELSE /\ issued' = issued \cup {[userId |-> user.id, email |-> user.email,
                                        boot |-> boots, pair |-> tokens]}
            /\ logins' = [logins EXCEPT ![i] =
                            [@ EXCEPT !.pc = "done",
                                      !.res = <<[status |-> 200,
                                                 user |-> [id |-> user.id,
                                                           email |-> user.email],
                                                 tokens |-> tokens]>>]]
    /\ UNCHANGED <<gateState, users, regs, catalogue>>

\* registrations and logins, interleaved at their awaits
NextLogin ==
    \/ NextRegister
    \/ \E email \in Emails, password \in Passwords, valid \in BOOLEAN :
          LoginStart(email, password, valid)
    \/ \E i \in DOMAIN logins : LoginSelect(i)
    \/ \E i \in DOMAIN logins : LoginCompare(i)

SpecLogin == Init /\ [][NextLogin]_vars

----------------------------------------------------------------------------
(* The models Question and Answer, the AI service and the routes of products
   and questions.  The tables are sets of rows. *)

\* the members of the object database.js exports
DatabaseExports == {"query", "getClient", "pool"}

\* the inserts of a batch that the database refuses
Failures == {{}, {2}}

TypeError == "TypeError: pool.connect is not a function"
InsertError == "error: insert failed"

\* the body of createBatch from its first line to its finally, for the rows
\* to insert, the inserts in failing being refused.  pool is the object
\* required from database.js: without a member connect the call of
\* pool.connect throws before the try block is entered.  Else the client
\* runs BEGIN, one INSERT per row in input order, then COMMIT, or ROLLBACK
\* when an insert was refused, and is released in the finally.  The result
\* records the call: its input, the refused inserts, the queries sent.
createBatch(rows, failing) ==
    LET inserts == [i \in DOMAIN rows |-> "INSERT"] IN
    IF "connect" \notin DatabaseExports
    THEN [threw |-> TRUE, error |-> TypeError, rows |-> <<>>,
          input |-> rows, refused |-> failing \cap DOMAIN rows,
          queries |-> <<>>, acquired |-> 0, released |-> 0, committed |-> <<>>]
    ELSE IF failing \cap DOMAIN rows = {}
    THEN [threw |-> FALSE, error |-> "", rows |-> rows,
          input |-> rows, refused |-> {},
          queries |-> <<"BEGIN">> \o inserts \o <<"COMMIT">>,
          acquired |-> 1, released |-> 1, committed |-> rows]
    ELSE [threw |-> TRUE, error |-> InsertError, rows |-> <<>>,
          input |-> rows, refused |-> failing \cap DOMAIN rows,
          queries |-> <<"BEGIN">> \o inserts \o <<"ROLLBACK">>,
          acquired |-> 1, released |-> 1, committed |-> <<>>]

\* Question.createBatch(productId, questions): the row of question i has
\* the next serial id, the product's id and order i
Question_createBatch(productId, qs, failing) ==
    createBatch([i \in DOMAIN qs |->
                    [id |-> Cardinality(questions) + i, product_id |-> productId,
                     question_text |-> qs[i].text, question_order |-> i]],
                failing)

\* Answer.createBatch(answers): an insert whose question_id is the id of no
\* question is refused by the foreign key of answers
Answer_createBatch(as, failing) ==
    createBatch([i \in DOMAIN as |->
                    [id |-> Cardinality(answers) + i,
                     question_id |-> as[i].question_id,
                     answer_text |-> as[i].answer_text]],
                failing \cup {i \in DOMAIN as :
                                 \A qn \in questions : qn.id # as[i].question_id})

\* the categories validateProduct accepts that the requests use
Categories == {"food", "cosmetics", "household"}

\* getFallbackQuestions: the sets of default questions
fallbackQuestions ==
    [food |-> <<[text |-> "food-1"], [text |-> "food-2"],
                [text |-> "food-3"], [text |-> "food-4"]>>,
     cosmetics |-> <<[text |-> "cosmetics-1"], [text |-> "cosmetics-2"],
                     [text |-> "cosmetics-3"], [text |-> "cosmetics-4"]>>,
     supplements |-> <<[text |-> "supplements-1"], [text |-> "supplements-2"],
                       [text |-> "supplements-3"], [text |-> "supplements-4"]>>]

\* fallbackQuestions[category] || fallbackQuestions.food
FallbackSet(category) ==
    IF category \in DOMAIN fallbackQuestions
    THEN fallbackQuestions[category]
    ELSE fallbackQuestions.food

getFallbackQuestions(productId, category, failing) ==
    Question_createBatch(productId, FallbackSet(category), failing)

\* what the AI service does with the POST of generateQuestions
Replies == {"refused", "timeout", "no questions", "questions"}

\* the questions of a reply that has a questions array
AIQuestions == <<[text |-> "ai-1"], [text |-> "ai-2"]>>

\* aiService.generateQuestions(productId, productData): calls lists the
\* calls of Question.createBatch in order
generateQuestions(productId, productData, reply, failAI, failFallback) ==
    LET saved == Question_createBatch(productId, AIQuestions, failAI)
        tried == IF reply = "questions" THEN <<saved>> ELSE <<>>
        fallback == getFallbackQuestions(productId, productData.category,
                                         failFallback)
    IN
    IF reply = "questions" /\ ~saved.threw
    THEN [threw |-> FALSE, error |-> "", rows |-> saved.rows, calls |-> tried]
    ELSE [threw |-> fallback.threw, error |-> fallback.error,
          rows |-> fallback.rows, calls |-> Append(tried, fallback)]

\* the rows the calls committed
RECURSIVE Committed(_)
Committed(calls) ==
    IF calls = <<>> THEN {}
    ELSE {Head(calls).committed[i] : i \in DOMAIN Head(calls).committed}
           \cup Committed(Tail(calls))

\* Product.findById(id): result.rows[0], or undefined
findById(id) == {p \in products : p.id = id}

\* Question.findByProduct(productId), in question_order
findByProduct(productId) == {qn \in questions : qn.product_id = productId}

ProductIds == 1 .. MaxProducts + 1

\* req.body.answers: no array, an empty array, or answers to questions
AnswerBodies ==
    {<<"not an array">>, <<"array", <<>> >>,
     <<"array", <<[question_id |-> 1, answer_text |-> "yes"]>> >>,
     <<"array", <<[question_id |-> 1, answer_text |-> "yes"],
                  [question_id |-> 5, answer_text |-> "no"]>> >>}

\* The handlers below follow authenticateToken, which admitted the identity
\* u as req.user.  Each is one step: the rows it reads between its awaits are
\* rows of products, which no route updates or deletes.

\* router.post('/') of products.js, for a body that passes validateProduct
CreateProduct(u, category, reply, failAI, failFallback) ==
    LET product == [id |-> Cardinality(products) + 1, user_id |-> u.id,
                    category |-> category]
        gen == generateQuestions(product.id, product, reply, failAI, failFallback)
    IN
    /\ Idle
    /\ Cardinality(products) < MaxProducts
    /\ products' = products \cup {product}
    /\ questions' = questions \cup Committed(gen.calls)
    /\ last' = [op |-> "createProduct", user |-> u, category |-> category,
                reply |-> reply, failAI |-> failAI, failFallback |-> failFallback,
                gen |-> gen, res |-> [status |-> 201, body |-> product]]
    /\ UNCHANGED <<now, ticks, Config, tokenBlacklist, timers, issued,
                   revokedEver, boots, users, regs, logins, answers, env, tc>>

\* router.get('/') of products.js
GetProducts(u) ==
    /\ Idle
    /\ last' = [op |-> "getProducts", user |-> u,
                res |-> [status |-> 200,
                         body |-> {p \in products : p.user_id = u.id}]]
    /\ UNCHANGED <<now, ticks, Config, tokenBlacklist, timers, issued,
                   revokedEver, boots, routes>>

\* GetProduct answering with the product whoever owns it
GetProduct_NoOwnerCheck(u, id) ==
    /\ Idle
    /\ last' = [op |-> "getProduct", user |-> u, id |-> id,
                res |-> IF findById(id) = {}
                        THEN [status |-> 404, error |-> "Product not found"]
                        ELSE [status |-> 200,
                              body |-> CHOOSE p \in findById(id) : TRUE]]
    /\ UNCHANGED <<now, ticks, Config, tokenBlacklist, timers, issued,
                   revokedEver, boots, routes>>

\* router.get('/:id') of products.js
GetProduct(u, id) ==
    /\ Idle
    /\ last' = [op |-> "getProduct", user |-> u, id |-> id,
                res |-> IF findById(id) = {}
                        THEN [status |-> 404, error |-> "Product not found"]
                        ELSE IF (CHOOSE p \in findById(id) : TRUE).user_id # u.id
                        THEN [status |-> 403, error |-> "Access denied"]
                        ELSE [status |-> 200,
                              body |-> CHOOSE p \in findById(id) : TRUE]]
    /\ UNCHANGED <<now, ticks, Config, tokenBlacklist, timers, issued,
                   revokedEver, boots, routes>>

\* !product || product.user_id !== req.user.id
NotOwn(u, id) == \A p \in findById(id) : p.user_id # u.id

\* router.get('/product/:productId') of questions.js
GetQuestions(u, id) ==
    /\ Idle
    /\ last' = [op |-> "getQuestions", user |-> u, id |-> id,
                res |-> IF NotOwn(u, id)
                        THEN [status |-> 404, error |-> "Product not found"]
                        ELSE [status |-> 200, body |-> findByProduct(id)]]
    /\ UNCHANGED <<now, ticks, Config, tokenBlacklist, timers, issued,
                   revokedEver, boots, routes>>

\* router.post('/product/:productId/answers') of questions.js
SubmitAnswers(u, id, body, failing) ==
    LET isArray == body[1] = "array"
        saved == Answer_createBatch(body[2], failing)
    IN
    /\ Idle
    /\ IF NotOwn(u, id)
       THEN /\ last' = [op |-> "submitAnswers", user |-> u, id |-> id,
                        body |-> body, calls |-> <<>>,
                        res |-> [status |-> 404, error |-> "Product not found"]]
            /\ UNCHANGED answers
       ELSE IF ~isArray \/ body[2] = <<>>
       THEN /\ last' = [op |-> "submitAnswers", user |-> u, id |-> id,
                        body |-> body, calls |-> <<>>,
                        res |-> [status |-> 400, error |-> "Invalid answers format"]]
            /\ UNCHANGED answers
       ELSE /\ last' = [op |-> "submitAnswers", user |-> u, id |-> id,
                        body |-> body, calls |-> <<saved>>,
                        res |-> IF saved.threw
                                THEN [status |-> 500,
                                      error |-> "Failed to submit answers"]
                                ELSE [status |-> 200, body |-> saved.rows]]
            /\ answers' = answers \cup Committed(<<saved>>)
    /\ UNCHANGED <<now, ticks, Config, tokenBlacklist, timers, issued,
                   revokedEver, boots, users, regs, logins, products, questions,
                   env, tc>>

\* router.post('/product/:productId/regenerate') of questions.js
Regenerate(u, id, reply, failAI, failFallback) ==
    LET product == CHOOSE p \in findById(id) : TRUE
        gen == generateQuestions(id, product, reply, failAI, failFallback)
    IN
    /\ Idle
    /\ IF NotOwn(u, id)
       THEN /\ last' = [op |-> "regenerate", user |-> u, id |-> id,
                        res |-> [status |-> 404, error |-> "Product not found"]]
            /\ UNCHANGED questions
       ELSE /\ last' = [op |-> "regenerate", user |-> u, id |-> id,
                        category |-> product.category, reply |-> reply,
                        failAI |-> failAI, failFallback |-> failFallback,
                        gen |-> gen,
                        res |-> IF gen.threw
                                THEN [status |-> 500,
                                      error |-> "Failed to regenerate questions"]
                                ELSE [status |-> 200, body |-> gen.rows]]
            /\ questions' = questions \cup Committed(gen.calls)
    /\ UNCHANGED <<now, ticks, Config, tokenBlacklist, timers, issued,
                   revokedEver, boots, users, regs, logins, products, answers,
                   env, tc>>

NextProducts ==
    \/ \E u \in Identities, category \in Categories, reply \in Replies,
          failAI \in Failures, failFallback \in Failures :
          CreateProduct(u, category, reply, failAI, failFallback)
    \/ \E u \in Identities : GetProducts(u)
    \/ \E u \in Identities, id \in ProductIds : GetProduct(u, id)
    \/ \E u \in Identities, id \in ProductIds : GetQuestions(u, id)
    \/ \E u \in Identities, id \in ProductIds, body \in AnswerBodies,
          failing \in Failures : SubmitAnswers(u, id, body, failing)
    \/ \E u \in Identities, id \in ProductIds, reply \in Replies,
          failAI \in Failures, failFallback \in Failures :
          Regenerate(u, id, reply, failAI, failFallback)
    \/ Return

SpecProducts == Init /\ [][NextProducts]_vars

----------------------------------------------------------------------------
(* GET /api/reports/:productId, reports.js:69-183, behind authenticateToken
   and inside asyncHandler.  The response object carries what was sent,
   how often a send threw ERR_HTTP_HEADERS_SENT because the headers were
   already sent, how often an error was passed to next, and whether the
   final handler of express destroyed the socket. *)

\* the x-session-id headers of the requests
SessionIds == {Undefined, EmptyString, <<Word("s1")>>}

\* res.status(status).json(body) on a response: sent when nothing was sent
\* before, else the send throws
res_json(res, body) ==
    IF res.sent = <<>>
    THEN [res EXCEPT !.sent = <<body>>]
    ELSE [res EXCEPT !.threw = @ + 1]

\* the body of the 200 response
Completed(user) == [status |-> 200, report |-> "completed", userId |-> user.id]

\* the later response records one more throw than the earlier
Threw(before, after) == after.threw > before.threw

\* the async handler: the response when its promise settles.  A send that
\* throws inside the try block lands in the catch block, none of whose tests
\* of error.code and error.response matches, so that its last statement
\* sends 500; a send that throws outside the try block, or in the catch
\* block, rejects the promise.
reportHandler(req, res) ==
    LET outside == res_json(res, [status |-> 400,
                                  error |-> "Session ID is required"])
        first == res_json(res, Completed(req.user))
        inTry == IF ~Truthy(env.AI_SERVICE_URL)
                 THEN res_json(res, [status |-> 503,
                                     error |-> "AI service not configured"])
                 ELSE IF Threw(res, first)
                 THEN first
                 ELSE res_json(first, Completed(req.user))
        caught == res_json(inTry, [status |-> 500,
                                   error |-> "Failed to generate report"])
    IN
    IF ~Truthy(req.sessionId)
    THEN [outside EXCEPT !.rejected = Threw(res, outside)]
    ELSE IF Threw(res, inTry)
    THEN [caught EXCEPT !.rejected = Threw(inTry, caught)]
    ELSE inTry

\* asyncHandler: Promise.resolve(fn(req, res, next)).catch(next); next(err)
\* reaches errorHandler, whose own send throws when a response was sent,
\* which leaves the error to the final handler of express: it destroys the
\* socket
asyncHandler(req, res) ==
    LET settled == reportHandler(req, res)
        handled == res_json(settled, [status |-> 500, error |-> "Server Error"])
    IN
    IF ~settled.rejected
    THEN settled
    ELSE [handled EXCEPT !.nextErr = @ + 1,
                         !.destroyed = Threw(settled, handled)]

\* a request to GET /api/reports/:productId
Report(h, sessionId) ==
    LET gate == authenticateToken(h)
        res == [sent |-> gate.sent, threw |-> 0, rejected |-> FALSE,
                nextErr |-> 0, destroyed |-> FALSE]
    IN
    /\ Idle
    /\ last' = [op |-> "report", header |-> h, sessionId |-> sessionId,
                gate |-> gate,
                res |-> IF gate.nextCalls > 0
                        THEN asyncHandler([sessionId |-> sessionId,
                                           user |-> gate.user[1]], res)
                        ELSE res]
    /\ UNCHANGED <<now, ticks, Config, tokenBlacklist, timers, issued,
                   revokedEver, boots, routes>>

InitReports ==
    /\ now = 0
    /\ ticks = 0
    /\ JWT_SECRET = RandomBytes("access", 0)
    /\ JWT_REFRESH_SECRET = RandomBytes("refresh", 0)
    /\ JWT_EXPIRES_IN \in Lifetimes
    /\ tokenBlacklist = {}
    /\ timers = 0
    /\ issued = {}
    /\ revokedEver = {}
    /\ last = [op |-> "idle"]
    /\ boots = 0
    /\ TablesInit
    /\ env \in Environments

NextReports ==
    \/ \E d \in Deltas : Tick(d)
    \/ \E u \in Identities : Issue(u)
    \/ \E h \in LogoutHeaders : Logout(h)
    \/ \E h \in Headers, sessionId \in SessionIds : Report(h, sessionId)
    \/ Return

SpecReports == InitReports /\ [][NextReports]_vars

----------------------------------------------------------------------------
(* securityMiddleware, security.js:4-54.  A header value and a string of the
   body are sequences of pieces of text; a body is a tree of values. *)

Methods == {"GET", "POST", "PUT"}

\* the values of the Content-Type header
ContentTypes ==
    {Undefined, EmptyString,
     <<Word("application/json")>>,
     <<Word("application/json"), Word("; charset=utf-8")>>,
     <<Word("multipart/form-data"), Word("; boundary=x")>>,
     <<Word("text/plain")>>,
     <<Word("application/x-www-form-urlencoded")>>}

TwoMB == 2 * 1024 * 1024

\* a string of decimal digits
Digits(n) == [kind |-> "digits", n |-> n]

\* the values of the Content-Length header, in bytes
ContentLengths ==
    {Undefined, <<Digits(0)>>, <<Digits(1024)>>, <<Digits(TwoMB)>>,
     <<Digits(TwoMB + 1)>>}

\* String.prototype.includes for a piece of text
includes(string, piece) == \E i \in DOMAIN string : string[i] = Word(piece)

\* parseInt(req.get('Content-Length') || '0')
parseInt(header) == IF Truthy(header) THEN header[1].n ELSE 0

\* the pieces of text that suspiciousPatterns match, one set per pattern,
\* in the order of the array; the patterns ignore case
suspiciousPatterns ==
    << {"<script>alert(1)</script>", "<SCRIPT>x</SCRIPT>"},
       {"javascript:", "data:text/html", "vbscript:", "onload=", "onerror="},
       {"union select", "DROP TABLE", "truncate table", "delete from"},
       {"${", "#{", "<%=", "<%", "%>"} >>

\* pattern.test(string) for a pattern built for this request: lastIndex is
\* 0 at every test, since a test that fails resets it and one that
\* succeeds ends the search
test(pattern, string) == \E i \in DOMAIN string : string[i] \in pattern

Str(string) == [type |-> "string", value |-> string]
Num == [type |-> "number"]
Null == [type |-> "null"]
NoBody == [type |-> "undefined"]
Obj(keys, values) == [type |-> "object", keys |-> keys, values |-> values]

\* req.body after the body parsers
Bodies ==
    {NoBody,
     Obj(<<>>, <<>>),
     Obj(<<"name", "price">>, <<Str(<<"Soap">>), Num>>),
     Obj(<<"name">>, <<Str(<<"Soap ", "onerror=", "x">>)>>),
     Obj(<<"a", "b">>,
         <<Null, Obj(<<"c", "d">>,
                     <<Str(<<"fine">>),
                       Obj(<<"0", "1">>, <<Num, Str(<<"1; ", "DROP TABLE", " users">>)>>)>>)>>),
     Obj(<<"${">>, <<Str(<<"fine">>)>>),
     Obj(<<"a">>, <<Obj(<<"b">>, <<Str(<<"script">>)>>)>>)}

\* checkForInjection(obj)
RECURSIVE checkForInjection(_)
checkForInjection(obj) ==
    IF obj.type = "string"
    THEN \E k \in DOMAIN suspiciousPatterns :
            test(suspiciousPatterns[k], obj.value)
    ELSE IF obj.type = "object"
    THEN \E i \in DOMAIN obj.values : checkForInjection(obj.values[i])
    ELSE FALSE

\* the headers set at the top of securityMiddleware
SecurityHeaders ==
    {"X-Content-Type-Options", "X-Frame-Options", "X-XSS-Protection",
     "Referrer-Policy", "Permissions-Policy"}

\* the response as express hands it to the middleware
FreshResponse ==
    [headers |-> {"X-Powered-By"}, sent |-> <<>>, nextCalls |-> 0]

\* res.removeHeader and the five res.setHeader
setHeaders(res) ==
    [res EXCEPT !.headers = (@ \ {"X-Powered-By"}) \cup SecurityHeaders]

\* the test of the content type of a POST or PUT
BadContentType(req) ==
    /\ req.method \in {"POST", "PUT"}
    /\ Truthy(req.contentType)
    /\ ~includes(req.contentType, "application/json")
    /\ ~includes(req.contentType, "multipart/form-data")

\* securityMiddleware testing the size first, the content type second
securityMiddleware_SizeFirst(req, res) ==
    LET withHeaders == setHeaders(res) IN
    IF parseInt(req.contentLength) > TwoMB
    THEN [withHeaders EXCEPT
            !.sent = Append(@, [status |-> 413, error |-> "Request too large"])]
    ELSE IF BadContentType(req)
    THEN [withHeaders EXCEPT
            !.sent = Append(@, [status |-> 400, error |-> "Invalid content type"])]
    ELSE IF req.body # NoBody /\ checkForInjection(req.body)
    THEN [withHeaders EXCEPT
            !.sent = Append(@, [status |-> 400, error |-> "Invalid input detected"])]
    ELSE [withHeaders EXCEPT !.nextCalls = @ + 1]

\* securityMiddleware(req, res, next)
securityMiddleware(req, res) ==
    LET withHeaders == setHeaders(res) IN
    IF BadContentType(req)
    THEN [withHeaders EXCEPT
            !.sent = Append(@, [status |-> 400, error |-> "Invalid content type"])]
    ELSE IF parseInt(req.contentLength) > TwoMB
    THEN [withHeaders EXCEPT
            !.sent = Append(@, [status |-> 413, error |-> "Request too large"])]
    ELSE IF req.body # NoBody /\ checkForInjection(req.body)
    THEN [withHeaders EXCEPT
            !.sent = Append(@, [status |-> 400, error |-> "Invalid input detected"])]
    ELSE [withHeaders EXCEPT !.nextCalls = @ + 1]

\* a request reaches securityMiddleware
Screen(method, contentType, contentLength, body) ==
    LET req == [method |-> method, contentType |-> contentType,
                contentLength |-> contentLength, body |-> body]
    IN
    /\ Idle
    /\ last' = [op |-> "security", req |-> req,
                res |-> securityMiddleware(req, FreshResponse)]
    /\ UNCHANGED <<now, ticks, Config, tokenBlacklist, timers, issued,
                   revokedEver, boots, routes>>

NextSecurity ==
    \/ \E method \in Methods, contentType \in ContentTypes,
          contentLength \in ContentLengths, body \in Bodies :
          Screen(method, contentType, contentLength, body)
    \/ Return

SpecSecurity == Init /\ [][NextSecurity]_vars

----------------------------------------------------------------------------
(* testConnection(retries), database.js:21-41.  tc is the call: its loop
   counter i, its position pc at one of its awaits, the clients it acquired
   and released, and the log of what happened: an attempt that failed at
   pool.connect or at the query, one that succeeded, a wait of 2 seconds. *)

\* the top of the for loop: another attempt while i < retries, else false
LoopTest(t) ==
    IF t.i < t.retries
    THEN [t EXCEPT !.pc = "connect"]
    ELSE [t EXCEPT !.pc = "done", !.result = <<FALSE>>]

\* the catch block: the wait of 2 seconds unless this was the last attempt
Catch(t) ==
    IF t.i < t.retries - 1
    THEN [t EXCEPT !.pc = "wait"]
    ELSE LoopTest([t EXCEPT !.i = @ + 1])

\* testConnection is called
TestConnection(retries) ==
    /\ tc.pc = "idle"
    /\ tc' = LoopTest([pc |-> "idle", retries |-> retries, i |-> 0,
                       attempts |-> 0, acquired |-> 0, released |-> 0,
                       log |-> <<>>, result |-> <<>>])
    /\ UNCHANGED <<gateState, issued, users, regs, logins, products,
                   questions, answers, env>>

\* await pool.connect() settles
Connect(ok) ==
    /\ tc.pc = "connect"
    /\ tc' = IF ok
             THEN [tc EXCEPT !.attempts = @ + 1, !.acquired = @ + 1,
                             !.pc = "query"]
             ELSE Catch([tc EXCEPT !.attempts = @ + 1,
                                   !.log = Append(@, "connect failed")])
    /\ UNCHANGED <<gateState, issued, users, regs, logins, products,
                   questions, answers, env>>

\* await client.query('SELECT NOW()') settles: client.release() and return
\* true, or the catch block
Query(ok) ==
    /\ tc.pc = "query"
    /\ tc' = IF ok
             THEN [tc EXCEPT !.released = @ + 1, !.pc = "done",
                             !.result = <<TRUE>>, !.log = Append(@, "connected")]
             ELSE Catch([tc EXCEPT !.log = Append(@, "query failed")])
    /\ UNCHANGED <<gateState, issued, users, regs, logins, products,
                   questions, answers, env>>

\* the timer of 2000 ms fires
Wait ==
    /\ tc.pc = "wait"
    /\ tc' = LoopTest([tc EXCEPT !.i = @ + 1, !.log = Append(@, "wait")])
    /\ UNCHANGED <<gateState, issued, users, regs, logins, products,
                   questions, answers, env>>

NextConnection ==
    \/ \E retries \in 0 .. MaxRetries : TestConnection(retries)
    \/ \E ok \in BOOLEAN : Connect(ok)
    \/ \E ok \in BOOLEAN : Query(ok)
    \/ Wait

SpecConnection == Init /\ [][NextConnection]_vars

\* every await of the call settles and the event loop runs what is ready
FairSpecConnection == SpecConnection /\ WF_vars(NextConnection)

----------------------------------------------------------------------------
(* The outcomes of the gate *)

MissingToken == [status |-> 401, error |-> "Access token required"]
Revoked == [status |-> 401, error |-> "Token has been revoked"]
Expired == [status |-> 401, error |-> "Token expired"]
TooOld == [status |-> 401, error |-> "Token too old, please refresh"]
Invalid == [status |-> 403, error |-> "Invalid token"]
RejectionKinds == {MissingToken, Revoked, Expired, TooOld, Invalid}

\* authenticateToken ran in the operation that ran last
GateRan == last.op \in {"request", "logout"}

\* next() called once, req.user set, nothing sent
Admitted(g) == g.nextCalls = 1 /\ Len(g.user) = 1 /\ g.sent = <<>>

\* one response of kind k sent, next() not called, req.user not set
RejectedWith(g, k) == g.nextCalls = 0 /\ g.user = <<>> /\ g.sent = <<k>>

\* the age of a token, Date.now() - iat * 1000
AgeOf(token) == now - token[1].iat * 1000

\* the token verifies: well formed, signed with JWT_SECRET, not expired, not too old
Verifies(token) ==
    /\ jwt_verify(token, JWT_SECRET, now).err = "none"
    /\ AgeOf(token) <= maxAge

----------------------------------------------------------------------------
(* C1 *)

\* C1: a request presenting a token string that is a member of the registry
\* is never admitted: next is not called and req.user is not set, whatever
\* the token's signature, expiry and age.
C1_RevokedNeverAdmitted ==
    (GateRan /\ last.wasRevoked)
        => (last.gate.nextCalls = 0 /\ last.gate.user = <<>>)

\* a revoked access token that would verify was presented and not admitted
C1_Witness ==
    /\ last.op = "request"
    /\ last.wasRevoked
    /\ last.token \in AccessTokens
    /\ Verifies(last.token)
    /\ last.gate.nextCalls = 0

----------------------------------------------------------------------------
(* C2 *)

\* the expiry claim of a token has not passed (a string that is no token
\* has none)
BeforeNaturalExpiry(token) == IsJwt(token) => FloorSec(now) < token[1].exp

\* C2: once a token was passed to revokeToken, every later authenticateToken
\* call presenting it before its natural expiry, after any revoke calls and
\* sweeps, rejects it with Revoked.
C2_RevokedStaysRevoked ==
    (GateRan /\ Truthy(last.token) /\ last.wasPassed /\ BeforeNaturalExpiry(last.token))
        => RejectedWith(last.gate, Revoked)

----------------------------------------------------------------------------
(* C3 *)

\* the request presents, as a Bearer header, the access token of the call c
\* of generateTokens, within the second of its issuance, not revoked
PresentsFresh(c) ==
    /\ last.op = "request"
    /\ last.header = <<Bearer, SP>> \o c.pair.accessToken
    /\ ~last.wasRevoked
    /\ IsJwt(c.pair.accessToken)
    /\ c.pair.accessToken[1].iat = FloorSec(now)

\* C3: the access token generateTokens(subject_id, email) returned, presented
\* right after issuance and not revoked, is admitted with an identity whose
\* id is subject_id and whose email is email.
C3_IssuedTokenAdmitted ==
    \A c \in issued :
        PresentsFresh(c)
            => /\ Admitted(last.gate)
               /\ last.gate.user[1].id = c.userId
               /\ last.gate.user[1].email = c.email

\* a just issued token was presented and admitted
C3_Witness ==
    \E c \in issued : PresentsFresh(c) /\ Admitted(last.gate) /\ c.userId = 2

----------------------------------------------------------------------------
(* C4 *)

\* C4: the registry is consulted before the signature: a token string in the
\* registry is rejected with Revoked, never with Invalid, Expired or TooOld,
\* also when it is malformed, badly signed, expired or too old.
C4_RevokedBeforeSignature ==
    (GateRan /\ last.wasRevoked) => RejectedWith(last.gate, Revoked)

\* a revoked string that would not verify was presented and rejected as Revoked
C4_Witness ==
    /\ last.op = "request"
    /\ last.wasRevoked
    /\ ~Verifies(last.token)
    /\ RejectedWith(last.gate, Revoked)

----------------------------------------------------------------------------
(* C5 *)

\* the signature of the string verifies against the access-token secret
SignatureVerifies(token) == IsJwt(token) /\ token[1].key = JWT_SECRET

----------------------------------------------------------------------------
(* C6 *)

\* an issued access token is presented more than 24 hours after its iat
PresentsOld ==
    /\ GateRan
    /\ last.token \in AccessTokens
    /\ AgeOf(last.token) > maxAge

\* C6 as claimed: for every configured lifetime, a token presented more than
\* 24 hours after its issued_at is rejected with Expired or TooOld.
C6_AsClaimed ==
    PresentsOld
        => (RejectedWith(last.gate, Expired) \/ RejectedWith(last.gate, TooOld))

\* C6, amended: for every configured lifetime, an access token presented more
\* than 24 hours after its issued_at is never admitted; it is rejected with
\* Expired or TooOld when it is not in the registry and with Revoked when it is.
C6_OldNeverAdmitted ==
    PresentsOld
        => /\ last.gate.nextCalls = 0
           /\ last.gate.user = <<>>
           /\ ~last.wasRevoked
                => (RejectedWith(last.gate, Expired) \/ RejectedWith(last.gate, TooOld))
           /\ last.wasRevoked => RejectedWith(last.gate, Revoked)

\* a token whose own expiry had not passed was rejected as TooOld
C6_Witness ==
    /\ PresentsOld
    /\ last.op = "request"
    /\ ~last.wasRevoked
    /\ FloorSec(now) < last.token[1].exp
    /\ RejectedWith(last.gate, TooOld)

----------------------------------------------------------------------------
(* C7 *)

----------------------------------------------------------------------------
(* C8 *)

\* the header carries a bearer token: the Bearer scheme and, after one
\* space, a second part that is not empty
CarriesBearerToken(h) ==
    /\ Truthy(h)
    /\ Len(Split(h)) >= 2
    /\ Split(h)[1] = <<Bearer>>
    /\ Split(h)[2] # EmptyString

\* C8: a request that carries no bearer token (no header, no second part, or
\* a scheme other than Bearer) is rejected with MissingToken.
C8_NoBearerTokenRejected ==
    (GateRan /\ ~CarriesBearerToken(last.header))
        => RejectedWith(last.gate, MissingToken)

----------------------------------------------------------------------------
(* C9 *)

\* C9: revokeToken called with a token that is already in the registry has
\* no effect: the registry keeps its contents, the token stays a member and
\* no sweep is scheduled, whatever the size of the registry.
C9_SecondRevokeNoEffect ==
    [][(last'.op = "revoke" /\ last'.wasRevoked)
          => /\ tokenBlacklist' = tokenBlacklist
             /\ last'.token \in tokenBlacklist'
             /\ timers' = timers]_vars

----------------------------------------------------------------------------
(* C10 *)

\* revokeToken ran in the step, once
RevokedOne ==
    \/ last'.op = "revoke"
    \/ last'.op = "logout" /\ Admitted(last'.gate) /\ Truthy(last'.token)

----------------------------------------------------------------------------
(* C11 *)

\* the string does not decode to a payload with an issued_at: jwt.decode
\* gives null or throws, or the payload has no iat
FailsToDecode(t) ==
    LET decoded == jwt_decode(t) IN ~decoded.ok \/ decoded.iat = <<>>

\* C11: when a sweep runs, every member of the registry that fails to decode
\* (a string that is no decodable token, or a token with no usable issued_at)
\* is deleted from the registry.
C11_UndecodableSwept ==
    [][last'.op = "sweep"
          => \A t \in tokenBlacklist : FailsToDecode(t) => t \notin tokenBlacklist']_vars

----------------------------------------------------------------------------
(* C12 *)

\* C12: the sweep is deferred: when a revokeToken call returns, also one that
\* triggers a sweep, the registry contains every member it had before the
\* call plus the revoked token; members leave the registry only in the later,
\* separate step in which the scheduled sweep runs.
C12_SweepDeferred ==
    [][/\ RevokedOne => tokenBlacklist' = tokenBlacklist \cup {last'.token}
       /\ last'.op # "sweep" => tokenBlacklist \subseteq tokenBlacklist'
      ]_vars

\* a revokeToken call that scheduled a sweep has returned and a member the
\* sweep is going to delete is still in the registry
C12_Witness ==
    /\ last.op \in {"revoke", "logout"}
    /\ last.token \in tokenBlacklist
    /\ SweepDue(tokenBlacklist)
    /\ timers > 0
    /\ \E t \in tokenBlacklist : IsJwt(t) /\ SweepDeletes(t, now - OneHourMs)

----------------------------------------------------------------------------
(* C13 *)

\* the SweepEvery stale tokens and then the token issued just now were revoked
AllRevoked == Cardinality(revokedEver) = SweepEvery + 1

\* no stale token is in the registry and the token issued just now is
StaleGoneFreshKept ==
    /\ \A t \in revokedEver : IsStale(t) => t \notin tokenBlacklist
    /\ \E t \in AccessTokens : t \in tokenBlacklist

\* C13: starting from an empty registry, after 100 tokens issued two hours
\* ago and then a 101st token issued just now were revoked, eventually, the
\* scheduled sweep being run, the 100 stale tokens are absent from the
\* registry and the 101st is present.
C13_StaleEventuallySwept == AllRevoked ~> StaleGoneFreshKept

\* the sweep ran after the 101 revocations and left only the 101st token
C13_Witness ==
    /\ last.op = "sweep"
    /\ AllRevoked
    /\ StaleGoneFreshKept
    /\ Cardinality(tokenBlacklist) = 1

----------------------------------------------------------------------------
(* C14 *)

\* C14: under any interleaving of authenticateToken calls, revokeToken calls
\* and sweeps, the membership check sees the registry whole: its answer is
\* the membership of the token in the registry, and a token that was passed
\* to revokeToken is reported as not revoked only if it is one the sweep
\* deletes, issued more than an hour before.
C14_NoTornRead ==
    /\ last.op = "request" => (last.wasRevoked <=> last.token \in tokenBlacklist)
    /\ (GateRan /\ Truthy(last.token) /\ last.wasPassed /\ ~last.wasRevoked)
          => (IsJwt(last.token) /\ AgeOf(last.token) > OneHourMs)

\* after a sweep that deleted members, and with another sweep pending, a
\* revoked token issued within the hour was presented and reported revoked
C14_Witness ==
    /\ last.op = "request"
    /\ revokedEver \ tokenBlacklist # {}
    /\ timers > 0
    /\ last.wasPassed
    /\ IsJwt(last.token)
    /\ AgeOf(last.token) <= OneHourMs
    /\ RejectedWith(last.gate, Revoked)

----------------------------------------------------------------------------
(* C15 *)

\* the token signed with secret for (userId, email) at the second iat, living
\* lifetime seconds
TokenFor(userId, email, iat, lifetime, secret) ==
    << [kind |-> "jwt", id |-> userId, email |-> email,
        iat |-> iat, exp |-> iat + lifetime, key |-> secret] >>

\* C15: generateTokens has no side effect: the registry, the pending sweeps,
\* the configuration and every other shared state are the same after the call
\* as before, and the pair it returns is determined by subject_id, email, the
\* two secrets and the second of the call.
C15_GenerateTokensPure ==
    [][last'.op = "issue"
          => /\ UNCHANGED <<tokenBlacklist, timers, Config, revokedEver, now, boots, routes>>
             /\ last'.call.pair.accessToken =
                    TokenFor(last'.call.userId, last'.call.email, FloorSec(now),
                             JWT_EXPIRES_IN, JWT_SECRET)
             /\ last'.call.pair.refreshToken =
                    TokenFor(last'.call.userId, last'.call.email, FloorSec(now),
                             RefreshLifetime, JWT_REFRESH_SECRET)
      ]_vars

\* generateTokens was called again within the second, after its first access
\* token was revoked: it returned the same string, which is in the registry
C15_Witness ==
    /\ last.op = "issue"
    /\ now > 0
    /\ last.call.pair.accessToken \in tokenBlacklist

----------------------------------------------------------------------------
(* C16 *)

\* revoking the token one of a pair leaves the token other as it was: in or
\* out of the registry as before, and answered by the gate as before
LeavesAlone(one, other) ==
    (RevokedOne /\ last'.token = one)
        => /\ other \in tokenBlacklist' <=> other \in tokenBlacklist
           /\ authenticateToken(<<Bearer, SP>> \o other)'
                 = authenticateToken(<<Bearer, SP>> \o other)

\* C16: the two tokens of a pair are independent: revoking the access token
\* leaves the refresh token out of the registry, revoking the refresh token
\* leaves the access token out of it, and the gate's outcome for the other
\* token is the same after the revocation as before.
C16_PairIndependent ==
    [][\A c \in issued :
          /\ LeavesAlone(c.pair.accessToken, c.pair.refreshToken)
          /\ LeavesAlone(c.pair.refreshToken, c.pair.accessToken)]_vars

\* the refresh token of a pair was revoked and the access token of the pair
\* is out of the registry and admitted by the gate
C16_Witness ==
    /\ last.op = "revoke"
    /\ \E c \in issued :
          /\ last.token = c.pair.refreshToken
          /\ c.pair.accessToken \notin tokenBlacklist
          /\ Admitted(authenticateToken(<<Bearer, SP>> \o c.pair.accessToken))

----------------------------------------------------------------------------
(* C17 *)

\* the step ran authenticateToken and nothing after it: a request to a
\* protected route, or a logout the gate rejected
GateOnly ==
    \/ last'.op = "request"
    \/ last'.op = "logout" /\ ~Admitted(last'.gate)

\* C17: authenticateToken has no state of its own: for every outcome the
\* registry (and the pending sweeps) are the same after the call as before,
\* and the decoded payload is attached to the request only when the request
\* is admitted.
C17_GateStateless ==
    [][/\ GateOnly => UNCHANGED <<tokenBlacklist, timers, revokedEver, Config>>
       /\ last'.op \in {"request", "logout"}
             => /\ last'.gate.user # <<>> => Admitted(last'.gate)
                /\ Admitted(last'.gate) => last'.gate.user = <<PayloadOf(last'.token)>>
      ]_vars

\* with members in the registry and a sweep pending, a request was rejected
\* as TooOld, nothing attached to it
C17_Witness ==
    /\ last.op = "request"
    /\ tokenBlacklist # {}
    /\ timers > 0
    /\ RejectedWith(last.gate, TooOld)

----------------------------------------------------------------------------
(* C18 *)

\* the configured lifetime of access tokens, in milliseconds
LifetimeMs == JWT_EXPIRES_IN * 1000

\* a token signed with JWT_SECRET that is not in the registry was presented
PresentsSigned ==
    /\ GateRan
    /\ Truthy(last.token)
    /\ SignatureVerifies(last.token)
    /\ ~last.wasRevoked

\* C18: of the configured lifetime L and the 24h window the stricter
\* decides: a correctly signed token that is not revoked is admitted exactly
\* when its age is below L and not above 24h; it is rejected with Expired
\* once its age has reached L, and with TooOld when its age exceeds 24h and
\* is still below L.
C18_StricterWins ==
    PresentsSigned
        => LET age == AgeOf(last.token) IN
           /\ Admitted(last.gate) <=> (age < LifetimeMs /\ age <= maxAge)
           /\ age >= LifetimeMs => RejectedWith(last.gate, Expired)
           /\ (age > maxAge /\ age < LifetimeMs) => RejectedWith(last.gate, TooOld)

\* with a lifetime of 48h a token aged exactly 24h was admitted
C18_Witness ==
    /\ PresentsSigned
    /\ LifetimeMs > maxAge
    /\ AgeOf(last.token) = maxAge
    /\ Admitted(last.gate)

----------------------------------------------------------------------------
(* C19 *)

\* the token was issued by this server before its last restart
IssuedBeforeRestart(token) ==
    /\ token \in AccessTokens \cup RefreshTokens
    /\ \E c \in issued :
          /\ token \in {c.pair.accessToken, c.pair.refreshToken}
          /\ c.boot < boots

----------------------------------------------------------------------------
(* C20 *)

\* no two rows of users have the same email
UniqueEmails == \A u1, u2 \in users : u1.email = u2.email => u1 = u2

\* the valid request i is answered in the step, and its email belonged to a
\* user when the step began
AnsweredForTakenEmail(i) ==
    /\ i \in DOMAIN regs
    /\ regs[i].valid
    /\ regs[i].pc # "done"
    /\ regs'[i].pc = "done"
    /\ SelectByEmail(regs[i].email) # {}

\* C20: under any interleaving of registration requests no two users share
\* an email, and every registration request for an email that already
\* belongs to a user, the loser of two concurrent registrations for the same
\* email included, is answered 409 'User already exists', creates no user
\* and issues no tokens.
C20_DuplicateAnswered409 ==
    [][/\ UniqueEmails'
       /\ \A i \in DOMAIN regs' :
             AnsweredForTakenEmail(i)
                => /\ regs'[i].res = <<[status |-> 409, error |-> "User already exists"]>>
                   /\ users' = users
                   /\ issued' = issued
      ]_vars

----------------------------------------------------------------------------
(* C21 *)

InvalidCredentials == <<[status |-> 401, error |-> "Invalid credentials"]>>

\* login request i is answered by this step
LoginAnswered(i) == logins[i].pc # "done" /\ logins'[i].pc = "done"

\* the step that answers login i found a user by the request's email whose
\* stored digest the submitted password matches
PasswordMatched(i) ==
    /\ logins[i].pc = "compare"
    /\ logins[i].user[1] \in users
    /\ logins[i].user[1].email = logins[i].email
    /\ logins[i].user[1].password_hash = bcrypt_hash(logins[i].submitted)

\* C21: a login is answered with a token pair only when the submitted
\* password matched the stored digest of the user found by email, and the
\* pair's subject is that user's id; a login for an unknown email and one with
\* a wrong password get the same answer, 401 'Invalid credentials', and no
\* token is issued for them; no other step of a login issues tokens.
C21_LoginOnlyOnMatch ==
    [][ /\ \A i \in DOMAIN logins :
             LoginAnswered(i) /\ logins[i].valid =>
               IF PasswordMatched(i)
               THEN /\ logins'[i].res[1].status = 200
                    /\ PayloadOf(logins'[i].res[1].tokens.accessToken).id
                         = logins[i].user[1].id
                    /\ PayloadOf(logins'[i].res[1].tokens.refreshToken).id
                         = logins[i].user[1].id
                    /\ logins'[i].res[1].user.id = logins[i].user[1].id
                    /\ issued' = issued \cup
                           {[userId |-> logins[i].user[1].id,
                             email |-> logins[i].email, boot |-> boots,
                             pair |-> logins'[i].res[1].tokens]}
               ELSE /\ logins'[i].res = InvalidCredentials
                    /\ issued' = issued
        /\ (issued' # issued /\ logins' # logins =>
              \E i \in DOMAIN logins : LoginAnswered(i) /\ PasswordMatched(i))
      ]_vars

----------------------------------------------------------------------------
(* C22 *)

\* the calls of createBatch made by the last request
BatchCalls ==
    IF last.op \in {"createProduct", "regenerate"} /\ "gen" \in DOMAIN last
    THEN last.gen.calls
    ELSE IF last.op = "submitAnswers" THEN last.calls
    ELSE <<>>

\* C22: createBatch is all-or-nothing: a call none of whose inserts is
\* refused returns, every row of the batch inserted and committed, the
\* returned rows in input order; a call with a refused insert issues
\* ROLLBACK, persists no row of the batch and rethrows the error; on every
\* path the call acquires a client and releases it exactly once.
C22_BatchAllOrNothing ==
    \A k \in DOMAIN BatchCalls :
        LET c == BatchCalls[k] IN
        /\ c.acquired = 1
        /\ c.released = 1
        /\ IF c.refused = {}
           THEN /\ ~c.threw
                /\ c.rows = c.input
                /\ c.committed = c.input
                /\ c.queries[Len(c.queries)] = "COMMIT"
           ELSE /\ c.threw
                /\ c.error = InsertError
                /\ c.queries[Len(c.queries)] = "ROLLBACK"
                /\ c.committed = <<>>

----------------------------------------------------------------------------
(* C23 *)

\* the texts of the rows, in order
Texts(rows) == [i \in DOMAIN rows |-> rows[i].question_text]

\* the last request called generateQuestions and the AI questions were not
\* saved: the AI call failed, timed out or had no questions array, or an
\* insert of the AI questions was refused; the database accepts the fallback
NeedsFallback ==
    /\ last.op \in {"createProduct", "regenerate"}
    /\ "gen" \in DOMAIN last
    /\ last.reply # "questions" \/ last.failAI \cap DOMAIN AIQuestions # {}
    /\ last.failFallback \cap DOMAIN FallbackSet(last.category) = {}

\* C23: whenever the AI call fails, times out, returns no questions array,
\* or saving the AI questions fails, generateQuestions persists and returns
\* the fallback set of the product's category, the food set for a category
\* without a set; and each call commits at most one batch.
C23_FallsBackToDefaults ==
    /\ NeedsFallback =>
          /\ ~last.gen.threw
          /\ Texts(last.gen.rows)
               = [i \in DOMAIN FallbackSet(last.category) |->
                     FallbackSet(last.category)[i].text]
          /\ \A i \in DOMAIN last.gen.rows : last.gen.rows[i] \in questions
    /\ (last.op \in {"createProduct", "regenerate"} /\ "gen" \in DOMAIN last) =>
          Cardinality({k \in DOMAIN last.gen.calls :
                         last.gen.calls[k].committed # <<>>}) <= 1

----------------------------------------------------------------------------
(* C25 *)

\* the product of the request that this step answers belongs to another user
ForeignProduct ==
    /\ "id" \in DOMAIN last'
    /\ "user" \in DOMAIN last'
    /\ \E p \in products : p.id = last'.id /\ p.user_id # last'.user.id

----------------------------------------------------------------------------
(* C24 *)

\* the request was answered with exactly this response, by one send, and
\* nothing happened after it
AnsweredOnce(status) ==
    /\ Len(last.res.sent) = 1
    /\ last.res.sent[1].status = status

\* C24: every request to GET /api/reports/:productId receives exactly one
\* response, decided in this order: the gate's rejection (401 or 403); else
\* 400 when the x-session-id header is missing; else 503 when AI_SERVICE_URL
\* is not configured; else 200 with status 'completed' and the userId of the
\* authenticated identity; and no path sends a second response or raises an
\* error after a response was sent.
C24_ReportAnsweredOnce ==
    last.op = "report" =>
        /\ IF ~Admitted(last.gate)
           THEN /\ last.res.sent = last.gate.sent
                /\ Len(last.res.sent) = 1
                /\ last.res.sent[1].status \in {401, 403}
           ELSE IF ~Truthy(last.sessionId)
           THEN AnsweredOnce(400)
           ELSE IF ~Truthy(env.AI_SERVICE_URL)
           THEN AnsweredOnce(503)
           ELSE /\ AnsweredOnce(200)
                /\ last.res.sent[1].report = "completed"
                /\ last.res.sent[1].userId = last.gate.user[1].id
        /\ last.res.threw = 0
        /\ last.res.nextErr = 0
        /\ ~last.res.destroyed

----------------------------------------------------------------------------
(* C26 *)

\* the logout request was confirmed: 200 'Logged out successfully' was sent
Confirmed(res) ==
    \E k \in DOMAIN res.sent : res.sent[k].status = 200

\* C26: logout revokes only admitted tokens, atomically with the gate's
\* check: a step of POST /api/auth/logout adds to the registry at most the
\* token of its own request, and only when authenticateToken, run in that
\* step on the registry as the step found it, admitted the request; a
\* logout is confirmed only when admitted; and a logout carrying a token
\* that is in the registry is rejected with Revoked (401), is not confirmed
\* and changes nothing, so that of two logouts with the same token at most
\* one is confirmed while the entry is in the registry.
C26_LogoutAtomicWithGate ==
    [][ last'.op = "logout" =>
          /\ last'.gate = authenticateToken(last'.header)
          /\ \A t \in tokenBlacklist' \ tokenBlacklist :
                t = last'.token /\ Admitted(last'.gate)
          /\ Confirmed(last'.res) => Admitted(last'.gate)
          /\ last'.token \in tokenBlacklist =>
                /\ RejectedWith(last'.gate, Revoked)
                /\ last'.res = last'.gate
                /\ ~Confirmed(last'.res)
                /\ tokenBlacklist' = tokenBlacklist
      ]_vars

\* a logout carrying an access token that an earlier request put into the
\* registry, where it still is: it is rejected with Revoked, not confirmed
C26_Witness ==
    /\ last.op = "logout"
    /\ last.token \in AccessTokens
    /\ last.wasRevoked
    /\ last.token \in tokenBlacklist
    /\ RejectedWith(last.gate, Revoked)
    /\ ~Confirmed(last.res)

----------------------------------------------------------------------------
(* C27 *)

\* the strings nested in a value, at any depth the bodies reach
Level(values) ==
    UNION {IF v.type = "object"
           THEN {v.values[i] : i \in DOMAIN v.values}
           ELSE {} : v \in values}

NestedStrings(body) ==
    LET l0 == {body}
        l1 == Level(l0)
        l2 == Level(l1)
        l3 == Level(l2)
    IN {v.value : v \in {w \in l0 \cup l1 \cup l2 \cup l3 : w.type = "string"}}

\* some string nested in the body holds a piece one of the patterns matches
HoldsSuspiciousString(body) ==
    \E string \in NestedStrings(body) :
        \E i \in DOMAIN string :
            string[i] \in UNION {suspiciousPatterns[k] :
                                    k \in DOMAIN suspiciousPatterns}

\* the middleware answered with this response alone and did not call next
AnsweredBy(res, status, error) ==
    /\ res.sent = <<[status |-> status, error |-> error]>>
    /\ res.nextCalls = 0

\* C27: securityMiddleware decides each request in a fixed order, with
\* exactly one outcome: a POST or PUT whose Content-Type is present and
\* names neither JSON nor multipart is answered 400; otherwise a declared
\* Content-Length above 2 MB is answered 413; otherwise a body with a
\* suspicious pattern in a nested string is answered 400; otherwise next is
\* called once and nothing is sent; the security headers are set in all
\* four cases.
C27_ScreenedInOrder ==
    last.op = "security" =>
        LET req == last.req
            res == last.res
        IN
        /\ SecurityHeaders \subseteq res.headers
        /\ IF /\ req.method \in {"POST", "PUT"}
              /\ Truthy(req.contentType)
              /\ req.contentType[1] \notin {Word("application/json"),
                                             Word("multipart/form-data")}
           THEN AnsweredBy(res, 400, "Invalid content type")
           ELSE IF req.contentLength # Undefined /\ req.contentLength[1].n > TwoMB
           THEN AnsweredBy(res, 413, "Request too large")
           ELSE IF HoldsSuspiciousString(req.body)
           THEN AnsweredBy(res, 400, "Invalid input detected")
           ELSE res.sent = <<>> /\ res.nextCalls = 1

\* a POST that fails all three tests, a text/plain body of more than 2 MB
\* with a suspicious string nested three levels deep, is answered by the
\* first test, the headers set
C27_Witness ==
    /\ last.op = "security"
    /\ last.req.method = "POST"
    /\ last.req.contentType = <<Word("text/plain")>>
    /\ last.req.contentLength = <<Digits(TwoMB + 1)>>
    /\ HoldsSuspiciousString(last.req.body)
    /\ checkForInjection(last.req.body)
    /\ last.res.sent = <<[status |-> 400, error |-> "Invalid content type"]>>
    /\ SecurityHeaders \subseteq last.res.headers

----------------------------------------------------------------------------
(* C28 *)

\* the log of a finished call has a wait between any two attempts and
\* nowhere else, and a success only as its last entry
WaitsOnlyBetween(log) ==
    \A k \in DOMAIN log :
        /\ log[k] = "wait" =>
              k > 1 /\ k < Len(log) /\ log[k - 1] # "wait" /\ log[k + 1] # "wait"
        /\ (log[k] # "wait" /\ k < Len(log)) => log[k + 1] = "wait"
        /\ log[k] = "connected" => k = Len(log)

\* what holds of a call that has returned
ReturnedAsClaimed ==
    /\ tc.attempts <= tc.retries
    /\ tc.result \in {<<TRUE>>, <<FALSE>>}
    /\ tc.result = <<TRUE>> <=>
          (tc.log # <<>> /\ tc.log[Len(tc.log)] = "connected")
    /\ tc.result = <<FALSE>> => tc.attempts = tc.retries
    /\ WaitsOnlyBetween(tc.log)
    /\ tc.released = tc.acquired

\* C28: testConnection(retries) always terminates, without throwing: it
\* makes at most retries attempts, returns true at the first successful
\* one, waits 2 seconds between attempts only, returns false when all
\* attempts fail, and has released every client it acquired.
C28_TestConnectionTerminates ==
    /\ [](tc.pc = "done" => ReturnedAsClaimed)
    /\ (tc.pc # "idle") ~> (tc.pc = "done")

====
